---- MODULE Spec2Model ----
(***************************************************************************)
(* Keyword sentiment scorer of cicd-with-ml and its three call sites:      *)
(*   api/app.py                          predict_sentiment, POST /predict  *)
(*   src/serving-pipeline/model.py       SentimentModel                    *)
(*   src/training-pipeline/train_model.py SimpleModelTrainer               *)
(*                                                                         *)
(* A Python str is a sequence of one-character strings.  A float is an     *)
(* integer number of thousandths (0.6 is 600), so that round(x, 2) is a    *)
(* real operation.  A list built from a Python set (extract_features) has  *)
(* no duplicates and an unspecified order: it is modelled by the set of    *)
(* its elements.                                                           *)
(***************************************************************************)
EXTENDS Integers, Sequences, FiniteSets, TLC

VARIABLES positive_words, negative_words, ready,
          model_data, training_stats,
          text, api_result, kserve_result, trainer_result,
          swapped_result, trainer_swapped,
          kserve_request, last, first, corpus, features,
          now, files, trained

vars == <<positive_words, negative_words, ready, model_data, training_stats,
          text, api_result, kserve_result, trainer_result,
          swapped_result, trainer_swapped, kserve_request, last, first, corpus,
          features, now, files, trained>>

\* Python's None.
None == [type |-> "None"]

\* Value of a str-valued result variable before the call was made.
NotCalled == "not called"

Range(f) == {f[i] : i \in DOMAIN f}

\* Directories save_model is called with: its default and a temporary one.
ModelDirs == {"../models", "tmp_path"}

\* No sentiment_model.pkl and no training_stats.json in any directory.
NoFiles == [dir \in ModelDirs |-> None]

(***************************************************************************)
(* str operations                                                          *)
(***************************************************************************)
UpperChars == <<"A","B","C","D","E","F","G","H","I","J","K","L","M",
                "N","O","P","Q","R","S","T","U","V","W","X","Y","Z">>

LowerChars == <<"a","b","c","d","e","f","g","h","i","j","k","l","m",
                "n","o","p","q","r","s","t","u","v","w","x","y","z">>

\* The characters str.strip() and str.split() treat as whitespace.
Whitespace == {" ", "\t", "\n", "\r", "\f"}

lower_char(c) ==
    IF \E i \in 1..Len(UpperChars) : UpperChars[i] = c
    THEN LowerChars[CHOOSE i \in 1..Len(UpperChars) : UpperChars[i] = c]
    ELSE c

\* str.lower()
lower(s) == [i \in 1..Len(s) |-> lower_char(s[i])]

\* str.strip(): drop the leading and the trailing whitespace.
strip(s) ==
    LET keep == {i \in 1..Len(s) : s[i] \notin Whitespace}
    IN  IF keep = {} THEN <<>>
        ELSE SubSeq(s, CHOOSE i \in keep : \A j \in keep : i <= j,
                       CHOOSE i \in keep : \A j \in keep : j <= i)

\* str.split(): the maximal runs of non-whitespace characters, in order.
RECURSIVE split_from(_, _, _)
split_from(s, i, word) ==
    IF i > Len(s)
    THEN IF word = <<>> THEN <<>> ELSE <<word>>
    ELSE IF s[i] \in Whitespace
         THEN IF word = <<>> THEN split_from(s, i + 1, <<>>)
              ELSE <<word>> \o split_from(s, i + 1, <<>>)
         ELSE split_from(s, i + 1, Append(word, s[i]))

split(s) == split_from(s, 1, <<>>)

\* `word in text` taken as a test on the whitespace-separated words.
contains_word(s, word) == word \in Range(split(s))

\* `word in text` on two str: word occurs as a contiguous substring.
contains(s, word) ==
    \E i \in 0..(Len(s) - Len(word)) :
        \A j \in 1..Len(word) : s[i + j] = word[j]

\* The blank test without its strip() half.
is_blank_empty_only(s) == s = <<>>

\* `not text or not text.strip()`
is_blank(s) == s = <<>> \/ strip(s) = <<>>

(***************************************************************************)
(* float operations, in thousandths                                        *)
(***************************************************************************)
\* min with its arguments' roles lost: the cap is never applied.
min_uncapped(a, b) == b

min(a, b) == IF a <= b THEN a ELSE b

\* round(x, 2): to the nearest hundredth (no value here is a tie).
round2(x) == ((x + 5) \div 10) * 10

(***************************************************************************)
(* The literal word lists                                                  *)
(***************************************************************************)
DefaultPositiveWords ==
    << <<"g","o","o","d">>,
       <<"g","r","e","a","t">>,
       <<"e","x","c","e","l","l","e","n","t">>,
       <<"a","m","a","z","i","n","g">>,
       <<"w","o","n","d","e","r","f","u","l">>,
       <<"f","a","n","t","a","s","t","i","c">>,
       <<"a","w","e","s","o","m","e">>,
       <<"l","o","v","e">>,
       <<"l","i","k","e">>,
       <<"h","a","p","p","y">>,
       <<"j","o","y">> >>

DefaultNegativeWords ==
    << <<"b","a","d">>,
       <<"t","e","r","r","i","b","l","e">>,
       <<"a","w","f","u","l">>,
       <<"h","o","r","r","i","b","l","e">>,
       <<"h","a","t","e">>,
       <<"d","i","s","l","i","k","e">>,
       <<"s","a","d">>,
       <<"a","n","g","r","y">>,
       <<"d","i","s","a","p","p","o","i","n","t","e","d">>,
       <<"w","o","r","s","t">> >>

\* sum(1 for word in words if word in text_lower), words a list
count_hits(words, text_lower) ==
    Cardinality({i \in 1..Len(words) : contains(text_lower, words[i])})

\* The same sum over a list that was built from a set.
count_hits_set(words, text_lower) ==
    Cardinality({w \in words : contains(text_lower, w)})

(***************************************************************************)
(* api/app.py                                                              *)
(***************************************************************************)
\* predict_sentiment with the confidence starting from 0.5 instead of 0.6.
predict_sentiment_base(t) ==
    LET text_lower == lower(t)
        positive_count == count_hits(DefaultPositiveWords, text_lower)
        negative_count == count_hits(DefaultNegativeWords, text_lower)
        sentiment == IF positive_count > negative_count THEN "positive"
                     ELSE IF negative_count > positive_count THEN "negative"
                     ELSE "neutral"
        confidence ==
            IF positive_count > negative_count
            THEN min(900, 500 + (positive_count - negative_count) * 100)
            ELSE IF negative_count > positive_count
            THEN min(900, 500 + (negative_count - positive_count) * 100)
            ELSE 500
    IN  [sentiment |-> sentiment, confidence |-> round2(confidence)]

predict_sentiment(t) ==
    LET text_lower == lower(t)
        positive_count == count_hits(DefaultPositiveWords, text_lower)
        negative_count == count_hits(DefaultNegativeWords, text_lower)
        sentiment == IF positive_count > negative_count THEN "positive"
                     ELSE IF negative_count > positive_count THEN "negative"
                     ELSE "neutral"
        confidence ==
            IF positive_count > negative_count
            THEN min(900, 600 + (positive_count - negative_count) * 100)
            ELSE IF negative_count > positive_count
            THEN min(900, 600 + (negative_count - positive_count) * 100)
            ELSE 500
    IN  [sentiment |-> sentiment, confidence |-> round2(confidence)]

(***************************************************************************)
(* src/serving-pipeline/model.py                                           *)
(***************************************************************************)
\* _analyze_sentiment with >= in its first comparison: a tie is "positive".
analyze_sentiment_tie(pw, nw, t) ==
    IF is_blank(t)
    THEN [text |-> t, sentiment |-> "neutral", confidence |-> 0,
          error |-> "Empty text provided"]
    ELSE
    LET text_lower == lower(t)
        positive_count == count_hits(pw, text_lower)
        negative_count == count_hits(nw, text_lower)
        sentiment == IF positive_count >= negative_count THEN "positive"
                     ELSE "negative"
        confidence ==
            IF positive_count >= negative_count
            THEN min(900, 600 + (positive_count - negative_count) * 100)
            ELSE min(900, 600 + (negative_count - positive_count) * 100)
    IN  [text |-> t, sentiment |-> sentiment,
         confidence |-> round2(confidence)]

analyze_sentiment(pw, nw, t) ==
    IF is_blank(t)
    THEN [text |-> t, sentiment |-> "neutral", confidence |-> 0,
          error |-> "Empty text provided"]
    ELSE
    LET text_lower == lower(t)
        positive_count == count_hits(pw, text_lower)
        negative_count == count_hits(nw, text_lower)
        sentiment == IF positive_count > negative_count THEN "positive"
                     ELSE IF negative_count > positive_count THEN "negative"
                     ELSE "neutral"
        confidence ==
            IF positive_count > negative_count
            THEN min(900, 600 + (positive_count - negative_count) * 100)
            ELSE IF negative_count > positive_count
            THEN min(900, 600 + (negative_count - positive_count) * 100)
            ELSE 500
    IN  [text |-> t, sentiment |-> sentiment,
         confidence |-> round2(confidence)]

(***************************************************************************)
(* src/training-pipeline/train_model.py                                    *)
(***************************************************************************)
\* _predict_single with >= in its first comparison: a tie is "positive".
predict_single_tie(md, t) ==
    IF md = None
    THEN "neutral"
    ELSE
    LET text_lower == lower(t)
        positive_count == count_hits_set(md.positive_words, text_lower)
        negative_count == count_hits_set(md.negative_words, text_lower)
    IN  IF positive_count >= negative_count THEN "positive"
        ELSE "negative"

\* _predict_single counting whole words of the text instead of substrings.
predict_single_words(md, t) ==
    IF md = None
    THEN "neutral"
    ELSE
    LET tokens == Range(split(lower(t)))
        positive_count == Cardinality(md.positive_words \cap tokens)
        negative_count == Cardinality(md.negative_words \cap tokens)
    IN  IF positive_count > negative_count THEN "positive"
        ELSE IF negative_count > positive_count THEN "negative"
        ELSE "neutral"

predict_single(md, t) ==
    IF md = None
    THEN "neutral"
    ELSE
    LET text_lower == lower(t)
        positive_count == count_hits_set(md.positive_words, text_lower)
        negative_count == count_hits_set(md.negative_words, text_lower)
    IN  IF positive_count > negative_count THEN "positive"
        ELSE IF negative_count > positive_count THEN "negative"
        ELSE "neutral"

(***************************************************************************)
(* Inputs                                                                  *)
(***************************************************************************)
\* Longest text, in fragments.
MaxFrags == 2

\* Pieces of text: hits of one to three default words, in either case,
\* embedded in a longer word ("sadly"), whitespace, and a word with no hit.
Fragments ==
    { <<"L","o","v","e">>,
      <<"g","r","e","a","t"," ","j","o","y"," ","g","o","o","d">>,
      <<"s","a","d","l","y"," ","a","w","f","u","l">>,
      <<"H","A","T","E"," ","b","a","d">>,
      <<"w","o","r","s","t">>,
      <<" ","\t">>,
      <<"o","k">> }

RECURSIVE TextsOf(_)
TextsOf(k) ==
    IF k = 0 THEN {<<>>}
    ELSE LET shorter == TextsOf(k - 1)
         IN  shorter \cup {t \o f : t \in shorter, f \in Fragments}

Texts == TextsOf(MaxFrags)

\* Word lists a SentimentModel or a trained model can carry: the literal
\* lists, a short derived pair ("at" occurs inside "great"), and none.
Lexicons ==
    { [positive_words |-> DefaultPositiveWords,
       negative_words |-> DefaultNegativeWords],
      [positive_words |-> << <<"l","o","v","e">>, <<"g","r","e","a","t">> >>,
       negative_words |-> << <<"h","a","t","e">>, <<"a","t">> >>],
      [positive_words |-> << <<"o","k">> >>,
       negative_words |-> << <<"a","w","f","u","l">>, <<"b","a","d">>,
                             <<"s","a","d","l","y">>, <<"j","o","y">>,
                             <<"g","o","o","d">> >>],
      [positive_words |-> <<>>, negative_words |-> <<>>] }

\* model_data as train_model builds it (trained_at, a clock reading, is
\* left out).
ModelData(pw, nw, size) ==
    [positive_words |-> pw, negative_words |-> nw,
     training_size |-> size, version |-> "1.0.0"]

(***************************************************************************)
(* The scorer as a function of one text and one lexicon: each call site    *)
(* applied to the same input.                                              *)
(***************************************************************************)
InitScore ==
    /\ text \in Texts
    /\ \E lx \in Lexicons :
          /\ positive_words = lx.positive_words
          /\ negative_words = lx.negative_words
          /\ model_data = ModelData(Range(lx.positive_words),
                                    Range(lx.negative_words), 0)
    /\ ready = TRUE
    /\ training_stats = <<>>
    /\ api_result = None
    /\ kserve_result = None
    /\ trainer_result = NotCalled
    /\ swapped_result = None
    /\ trainer_swapped = NotCalled
    /\ kserve_request = [instances |-> <<>>]
    /\ last = [op |-> "none"]
    /\ first = [site |-> "none"]
    /\ corpus = <<>>
    /\ features = None
    /\ now = 0
    /\ files = NoFiles
    /\ trained = FALSE

CallPredictSentiment ==
    /\ api_result' = predict_sentiment(text)
    /\ UNCHANGED <<now, files, trained,
                   positive_words, negative_words, ready, model_data,
                   training_stats, text, kserve_result, trainer_result,
                   swapped_result, trainer_swapped, kserve_request, last, first,
                   corpus, features>>

CallAnalyzeSentiment ==
    /\ kserve_result' = analyze_sentiment(positive_words, negative_words, text)
    /\ UNCHANGED <<now, files, trained,
                   positive_words, negative_words, ready, model_data,
                   training_stats, text, api_result, trainer_result,
                   swapped_result, trainer_swapped, kserve_request, last, first,
                   corpus, features>>

CallPredictSingle ==
    /\ trainer_result' = predict_single(model_data, text)
    /\ UNCHANGED <<now, files, trained,
                   positive_words, negative_words, ready, model_data,
                   training_stats, text, api_result, kserve_result,
                   swapped_result, trainer_swapped, kserve_request, last, first,
                   corpus, features>>

\* The same two calls on an object whose two word lists are exchanged.
CallAnalyzeSwapped ==
    /\ swapped_result' = analyze_sentiment(negative_words, positive_words, text)
    /\ UNCHANGED <<now, files, trained,
                   positive_words, negative_words, ready, model_data,
                   training_stats, text, api_result, kserve_result,
                   trainer_result, trainer_swapped, kserve_request, last, first,
                   corpus, features>>

CallPredictSingleSwapped ==
    /\ trainer_swapped' =
          predict_single(ModelData(model_data.negative_words,
                                   model_data.positive_words,
                                   model_data.training_size), text)
    /\ UNCHANGED <<now, files, trained,
                   positive_words, negative_words, ready, model_data,
                   training_stats, text, api_result, kserve_result,
                   trainer_result, swapped_result, kserve_request, last, first,
                   corpus, features>>

NextScore ==
    \/ CallPredictSentiment
    \/ CallAnalyzeSentiment
    \/ CallPredictSingle
    \/ CallAnalyzeSwapped
    \/ CallPredictSingleSwapped

SpecScore == InitScore /\ [][NextScore]_vars

(***************************************************************************)
(* Properties of the scorer (SpecScore)                                    *)
(***************************************************************************)
\* A text with no character other than whitespace, the empty one included.
Blank(t) == \A i \in 1..Len(t) : t[i] \in Whitespace

\* The hit counts of the text under study, for the literal lists and for
\* the lists the object carries.
DefaultP == count_hits(DefaultPositiveWords, lower(text))
DefaultN == count_hits(DefaultNegativeWords, lower(text))
OwnP == count_hits(positive_words, lower(text))
OwnN == count_hits(negative_words, lower(text))

DefaultLexicon ==
    /\ positive_words = DefaultPositiveWords
    /\ negative_words = DefaultNegativeWords

Capped(d) == IF 600 + 100 * d > 900 THEN 900 ELSE 600 + 100 * d

FollowsRule(r, p, n) ==
    /\ p > n => r.sentiment = "positive" /\ r.confidence = Capped(p - n)
    /\ n > p => r.sentiment = "negative" /\ r.confidence = Capped(n - p)
    /\ p = n => r.sentiment = "neutral" /\ r.confidence = 500
    /\ r.sentiment \in {"positive", "negative"} =>
          r.confidence > 500 /\ r.confidence \in {700, 800, 900}

\* C2: for a non-blank text the result is decided by the two hit counts:
\* more positive hits give "positive" with min(0.9, 0.6 + 0.1 * difference),
\* more negative hits give "negative" with the same confidence rule, a tie
\* gives "neutral" with 0.5; a non-neutral confidence is 0.7, 0.8 or 0.9.
C2_ScoringRule ==
    ~Blank(text) =>
        /\ api_result # None =>
              \E p \in {DefaultP}, n \in {DefaultN} :
                  FollowsRule(api_result, p, n)
        /\ kserve_result # None =>
              \E p \in {OwnP}, n \in {OwnN} :
                  FollowsRule(kserve_result, p, n)

C2_Witness ==
    /\ ~Blank(text)
    /\ api_result # None
    /\ kserve_result # None
    /\ DefaultP - DefaultN >= 4
    /\ OwnN > OwnP

\* C3: whatever the text and the word lists, the confidence is between 0.0
\* and 0.9, however large the difference of the counts.
C3_ConfidenceRange ==
    \A r \in {api_result, kserve_result, swapped_result} :
        r # None => r.confidence >= 0 /\ r.confidence <= 900

C3_Witness ==
    /\ kserve_result # None
    /\ swapped_result # None
    /\ OwnP - OwnN >= 4
    /\ kserve_result.confidence = 900
    /\ swapped_result.confidence = 900

\* C4 as stated: every scorer answers a blank text with "neutral" and
\* confidence 0.0.
C4_Original ==
    Blank(text) =>
        \A r \in {api_result, kserve_result} :
            r # None => r.sentiment = "neutral" /\ r.confidence = 0

\* C4, amended: SentimentModel._analyze_sentiment answers a blank text with
\* "neutral" and confidence 0.0 for any word lists; predict_sentiment has no
\* blank-text branch and answers it with "neutral" and the tie's 0.5.
C4_BlankText ==
    Blank(text) =>
        /\ kserve_result # None =>
              /\ kserve_result.sentiment = "neutral"
              /\ kserve_result.confidence = 0
        /\ api_result # None =>
              /\ api_result.sentiment = "neutral"
              /\ api_result.confidence = 500

C4_Witness ==
    /\ Blank(text)
    /\ text # <<>>
    /\ kserve_result # None
    /\ api_result # None

\* C5 as stated: with the same word lists the three call sites return the
\* same sentiment for every text, and the HTTP and the model-server ones the
\* same confidence.
C5_Original ==
    /\ (kserve_result # None /\ trainer_result # NotCalled) =>
          kserve_result.sentiment = trainer_result
    /\ (DefaultLexicon /\ api_result # None /\ kserve_result # None) =>
          /\ api_result.sentiment = kserve_result.sentiment
          /\ api_result.confidence = kserve_result.confidence

\* C5, amended: with the same word lists (entries non-empty and free of
\* whitespace) the three call sites return the same sentiment for every
\* text; the HTTP and the model-server ones return the same confidence for
\* every non-blank text, and 0.5 against 0.0 for a blank one.
C5_SameOffBlank ==
    /\ (kserve_result # None /\ trainer_result # NotCalled) =>
          kserve_result.sentiment = trainer_result
    /\ (DefaultLexicon /\ api_result # None /\ kserve_result # None) =>
          /\ api_result.sentiment = kserve_result.sentiment
          /\ ~Blank(text) =>
                api_result.confidence = kserve_result.confidence
          /\ Blank(text) =>
                api_result.confidence = 500 /\ kserve_result.confidence = 0

C5_Witness ==
    /\ DefaultLexicon
    /\ ~Blank(text)
    /\ api_result # None
    /\ kserve_result # None
    /\ trainer_result = "negative"
    /\ api_result.confidence = 800

Opposite(sentiment) ==
    IF sentiment = "positive" THEN "negative"
    ELSE IF sentiment = "negative" THEN "positive"
    ELSE sentiment

\* C9: exchanging the positive and the negative word list exchanges
\* "positive" and "negative", keeps "neutral", and keeps the confidence.
C9_SwapSymmetry ==
    /\ (kserve_result # None /\ swapped_result # None) =>
          /\ swapped_result.sentiment = Opposite(kserve_result.sentiment)
          /\ swapped_result.confidence = kserve_result.confidence
    /\ (trainer_result # NotCalled /\ trainer_swapped # NotCalled) =>
          trainer_swapped = Opposite(trainer_result)

C9_Witness ==
    /\ kserve_result # None
    /\ swapped_result # None
    /\ kserve_result.sentiment = "positive"
    /\ swapped_result.sentiment = "negative"
    /\ trainer_result = "positive"
    /\ trainer_swapped = "negative"

(***************************************************************************)
(* SentimentModel.predict (src/serving-pipeline/model.py)                  *)
(*                                                                         *)
(* An instance is [kind, value]: kind is the Python type the isinstance    *)
(* tests see, value a str, a dict (a function on its keys) or a number.    *)
(***************************************************************************)
Digits == <<"0","1","2","3","4","5","6","7","8","9">>

RECURSIVE str_nat(_)
str_nat(n) ==
    IF n < 10 THEN <<Digits[n + 1]>>
    ELSE Append(str_nat(n \div 10), Digits[(n % 10) + 1])

\* str(instance) for an int
str_int(n) == IF n < 0 THEN <<"-">> \o str_nat(-n) ELSE str_nat(n)

\* dict.get(key, default)
get(d, key, default) == IF key \in DOMAIN d THEN d[key] ELSE default

\* The isinstance chain with "data" looked up before "text".
instance_text_data_first(instance) ==
    IF instance.kind = "str" THEN instance.value
    ELSE IF instance.kind = "dict"
         THEN get(instance.value, "data", get(instance.value, "text", <<>>))
         ELSE str_int(instance.value)

\* The isinstance chain at the head of the loop body.
instance_text(instance) ==
    IF instance.kind = "str" THEN instance.value
    ELSE IF instance.kind = "dict"
         THEN get(instance.value, "text", get(instance.value, "data", <<>>))
         ELSE str_int(instance.value)

\* The for loop: acc.predictions is the list being built, acc.calls the
\* texts handed to _analyze_sentiment so far.
RECURSIVE predict_loop(_, _, _, _, _)
predict_loop(pw, nw, instances, i, acc) ==
    IF i > Len(instances) THEN acc
    ELSE LET t == instance_text(instances[i])
             result == analyze_sentiment(pw, nw, t)
         IN  predict_loop(pw, nw, instances, i + 1,
                 [predictions |-> Append(acc.predictions, result),
                  calls |-> Append(acc.calls, t)])

\* The loop leaving out an instance whose text is blank.
RECURSIVE predict_loop_skip(_, _, _, _, _)
predict_loop_skip(pw, nw, instances, i, acc) ==
    IF i > Len(instances) THEN acc
    ELSE LET t == instance_text(instances[i])
             result == analyze_sentiment(pw, nw, t)
         IN  IF is_blank(t)
             THEN predict_loop_skip(pw, nw, instances, i + 1, acc)
             ELSE predict_loop_skip(pw, nw, instances, i + 1,
                     [predictions |-> Append(acc.predictions, result),
                      calls |-> Append(acc.calls, t)])

sentiment_model_predict_skip(pw, nw, payload) ==
    LET instances == get(payload, "instances", <<>>)
    IN  IF instances = <<>>
        THEN [predictions |-> <<>>, calls |-> <<>>]
        ELSE predict_loop_skip(pw, nw, instances, 1,
                               [predictions |-> <<>>, calls |-> <<>>])

\* predict(payload): the returned dict's "predictions", with the calls made.
sentiment_model_predict(pw, nw, payload) ==
    LET instances == get(payload, "instances", <<>>)
    IN  IF instances = <<>>
        THEN [predictions |-> <<>>, calls |-> <<>>]
        ELSE predict_loop(pw, nw, instances, 1,
                          [predictions |-> <<>>, calls |-> <<>>])

(***************************************************************************)
(* POST /predict (api/app.py)                                              *)
(***************************************************************************)
\* The body of the try block: it returns the response model or raises.
predict_try(t) ==
    IF strip(t) = <<>>
    THEN [raised |-> [status_code |-> 400, detail |-> "Text cannot be empty"],
          calls |-> <<>>, results |-> <<>>]
    ELSE LET prediction == predict_sentiment(t)
         IN  [returned |-> [text |-> t,
                            sentiment |-> prediction.sentiment,
                            confidence |-> prediction.confidence],
              calls |-> <<t>>, results |-> <<prediction>>]

\* The handler: `except Exception` receives whatever the try block raised,
\* the HTTPException of the blank-text test included, and raises the 500.
predict(t) ==
    LET outcome == predict_try(t)
    IN  IF "raised" \in DOMAIN outcome
        THEN [status_code |-> 500, detail |-> "Internal server error",
              calls |-> outcome.calls, results |-> outcome.results]
        ELSE [status_code |-> 200, body |-> outcome.returned,
              calls |-> outcome.calls, results |-> outcome.results]

(***************************************************************************)
(* The two services as one system                                          *)
(***************************************************************************)
\* Longest list of instances in one kserve_request.
MaxBatch == 3

\* Texts of the HTTP requests: the empty one and each fragment.
RequestTexts == TextsOf(1)

Instances ==
    { [kind |-> "str", value |-> <<"L","o","v","e">>],
      [kind |-> "str", value |-> <<" ","\t">>],
      [kind |-> "dict", value |-> [text |-> <<"g","o","o","d">>]],
      [kind |-> "dict", value |-> [data |-> <<"H","A","T","E"," ","b","a","d">>]],
      [kind |-> "dict", value |-> [text |-> <<>>, data |-> <<"g","o","o","d">>]],
      [kind |-> "dict", value |-> [id |-> <<"7">>]],
      [kind |-> "int", value |-> 42] }

RECURSIVE BatchesOf(_)
BatchesOf(k) ==
    IF k = 0 THEN {<<>>}
    ELSE LET shorter == BatchesOf(k - 1)
         IN  shorter \cup {Append(b, inst) : b \in shorter, inst \in Instances}

Payloads ==
    {[instances |-> b] : b \in BatchesOf(MaxBatch)}
        \cup {[inputs |-> <<[kind |-> "str", value |-> <<"o","k">>]>>]}

\* The first scoring call of the run, kept to compare later calls with.
Remember(site, calls, results) ==
    IF first.site = "none" /\ calls # <<>>
    THEN [site |-> site, text |-> calls[1], result |-> results[1]]
    ELSE first

\* A SentimentModel and the HTTP application after construction, with one
\* model-server request in flight.
Init ==
    /\ positive_words = DefaultPositiveWords
    /\ negative_words = DefaultNegativeWords
    /\ ready = FALSE
    /\ model_data = None
    /\ training_stats = <<>>
    /\ text = <<>>
    /\ api_result = None
    /\ kserve_result = None
    /\ trainer_result = NotCalled
    /\ swapped_result = None
    /\ trainer_swapped = NotCalled
    /\ kserve_request \in Payloads
    /\ last = [op |-> "none"]
    /\ first = [site |-> "none"]
    /\ corpus = <<>>
    /\ features = None
    /\ now = 0
    /\ files = NoFiles
    /\ trained = FALSE

\* SentimentModel.load
ModelLoad ==
    /\ ready' = TRUE
    /\ UNCHANGED <<now, files, trained,
                   positive_words, negative_words, model_data, training_stats,
                   text, api_result, kserve_result, trainer_result,
                   swapped_result, trainer_swapped, kserve_request, last, first,
                   corpus, features>>

\* predict removing from self.positive_words the words it has matched.
ModelPredict_consuming ==
    \E out \in {sentiment_model_predict(positive_words, negative_words,
                                        kserve_request)} :
        /\ last' = [op |-> "predict", input |-> kserve_request,
                    output |-> [predictions |-> out.predictions],
                    calls |-> out.calls, results |-> out.predictions]
        /\ first' = Remember("kserve", out.calls, out.predictions)
        /\ positive_words' =
              SelectSeq(positive_words,
                        LAMBDA w : \A i \in 1..Len(out.calls) :
                                      ~contains(lower(out.calls[i]), w))
        /\ UNCHANGED <<now, files, trained,
                       negative_words, ready, model_data,
                       training_stats, text, api_result, kserve_result,
                       trainer_result, swapped_result, trainer_swapped,
                       kserve_request, corpus, features>>

\* SentimentModel.predict(payload), for the request in flight
ModelPredict ==
    \E out \in {sentiment_model_predict(positive_words, negative_words,
                                        kserve_request)} :
        /\ last' = [op |-> "predict", input |-> kserve_request,
                    output |-> [predictions |-> out.predictions],
                    calls |-> out.calls, results |-> out.predictions]
        /\ first' = Remember("kserve", out.calls, out.predictions)
        /\ UNCHANGED <<now, files, trained,
                       positive_words, negative_words, ready, model_data,
                       training_stats, text, api_result, kserve_result,
                       trainer_result, swapped_result, trainer_swapped,
                       kserve_request, corpus, features>>

\* POST /predict with the body {"text": t}
ApiPredict(t) ==
    \E out \in {predict(t)} :
        /\ last' = [op |-> "POST /predict", input |-> [text |-> t],
                    output |-> [f \in DOMAIN out \ {"calls", "results"}
                                   |-> out[f]],
                    calls |-> out.calls, results |-> out.results]
        /\ first' = Remember("api", out.calls, out.results)
        /\ UNCHANGED <<now, files, trained,
                       positive_words, negative_words, ready, model_data,
                       training_stats, text, api_result, kserve_result,
                       trainer_result, swapped_result, trainer_swapped,
                       kserve_request, corpus, features>>

Next ==
    \/ ModelLoad
    \/ ModelPredict
    \/ \E t \in RequestTexts : ApiPredict(t)

Spec == Init /\ [][Next]_vars

(***************************************************************************)
(* Properties of the two services (Spec)                                   *)
(***************************************************************************)
\* The text the interface promises to take from an instance.
TakenText(instance) ==
    IF instance.kind = "str" THEN instance.value
    ELSE IF instance.kind = "dict"
         THEN IF "text" \in DOMAIN instance.value THEN instance.value.text
              ELSE IF "data" \in DOMAIN instance.value
                   THEN instance.value.data
                   ELSE <<>>
         ELSE str_int(instance.value)

InstancesOf(request) ==
    IF "instances" \in DOMAIN request THEN request.instances ELSE <<>>

\* C1: a POST /predict whose text is blank is answered with status 400, and
\* predict_sentiment is not called for it.
C1_BlankRejected400 ==
    (last.op = "POST /predict" /\ Blank(last.input.text)) =>
        /\ last.output.status_code = 400
        /\ last.calls = <<>>

\* C6: predict calls the scorer once per instance, in order, on the text
\* taken from the instance, and returns one prediction per instance, the
\* i-th being the result for the i-th instance; without instances the
\* predictions list is empty.
C6_OnePerInstance ==
    last.op = "predict" =>
        LET instances == InstancesOf(last.input)
            predictions == last.output.predictions
        IN  /\ Len(predictions) = Len(instances)
            /\ Len(last.calls) = Len(instances)
            /\ \A i \in 1..Len(instances) :
                  /\ last.calls[i] = TakenText(instances[i])
                  /\ predictions[i].text = TakenText(instances[i])
                  /\ predictions[i] =
                        analyze_sentiment(positive_words, negative_words,
                                          TakenText(instances[i]))

C6_Witness ==
    /\ last.op = "predict"
    /\ Len(last.output.predictions) = MaxBatch
    /\ \E i, j, k \in 1..Len(last.input.instances) :
          /\ last.input.instances[i].kind = "str"
          /\ last.input.instances[j].kind = "dict"
          /\ DOMAIN last.input.instances[j].value = {"text", "data"}
          /\ last.input.instances[k].kind = "dict"
          /\ DOMAIN last.input.instances[k].value = {"data"}

\* C7: in a batch, an instance with a blank text gets a prediction with
\* "neutral", confidence 0.0 and the error marker "Empty text provided";
\* every other instance of the batch, before or after it, is scored by the
\* counting rule and carries no error marker.
C7_BlankInBatch ==
    last.op = "predict" =>
        LET instances == InstancesOf(last.input)
            predictions == last.output.predictions
        IN  /\ Len(predictions) = Len(instances)
            /\ \A i \in 1..Len(instances) :
                  LET t == TakenText(instances[i])
                  IN  /\ Blank(t) =>
                            /\ predictions[i].sentiment = "neutral"
                            /\ predictions[i].confidence = 0
                            /\ "error" \in DOMAIN predictions[i]
                            /\ predictions[i].error = "Empty text provided"
                      /\ ~Blank(t) =>
                            /\ "error" \notin DOMAIN predictions[i]
                            /\ FollowsRule(predictions[i],
                                   count_hits(DefaultPositiveWords, lower(t)),
                                   count_hits(DefaultNegativeWords, lower(t)))

C7_Witness ==
    /\ last.op = "predict"
    /\ Len(last.output.predictions) = 3
    /\ last.output.predictions[1].sentiment = "positive"
    /\ "error" \in DOMAIN last.output.predictions[2]
    /\ last.output.predictions[2].text # <<>>
    /\ last.output.predictions[3].sentiment = "negative"

\* C10: whatever calls were made before, in whatever order, the word lists
\* of the SentimentModel are the ones it was constructed with, and a text
\* scored again at a call site gets the result of the first call.
C10_NoHiddenState ==
    /\ positive_words = DefaultPositiveWords
    /\ negative_words = DefaultNegativeWords
    /\ (first.site = "kserve" /\ last.op = "predict") =>
          \A i \in 1..Len(last.calls) :
              last.calls[i] = first.text => last.results[i] = first.result
    /\ (first.site = "api" /\ last.op = "POST /predict") =>
          \A i \in 1..Len(last.calls) :
              last.calls[i] = first.text => last.results[i] = first.result

C10_Witness ==
    /\ first.site = "kserve"
    /\ last.op = "predict"
    /\ Len(last.calls) = 3
    /\ last.calls[3] = first.text
    /\ last.calls[2] # first.text
    /\ last.results[3].sentiment = "positive"

(***************************************************************************)
(* SimpleModelTrainer.extract_features                                     *)
(*                                                                         *)
(* A labeled example is the pair <<text, label>>; the three returned       *)
(* lists are modelled by their sets of elements.                           *)
(***************************************************************************)
\* The loop with `else` in place of `elif label == "negative"`.
RECURSIVE extract_loop_else(_, _, _, _)
extract_loop_else(data, i, pos, neg) ==
    IF i > Len(data) THEN [positive_words |-> pos, negative_words |-> neg]
    ELSE LET words == Range(split(lower(data[i][1])))
             label == data[i][2]
         IN  IF label = "positive"
             THEN extract_loop_else(data, i + 1, pos \cup words, neg)
             ELSE extract_loop_else(data, i + 1, pos, neg \cup words)

\* The for loop over the examples: set.update(words) under each label.
RECURSIVE extract_loop(_, _, _, _)
extract_loop(data, i, pos, neg) ==
    IF i > Len(data) THEN [positive_words |-> pos, negative_words |-> neg]
    ELSE LET words == Range(split(lower(data[i][1])))
             label == data[i][2]
         IN  IF label = "positive"
             THEN extract_loop(data, i + 1, pos \cup words, neg)
             ELSE IF label = "negative"
                  THEN extract_loop(data, i + 1, pos, neg \cup words)
                  ELSE extract_loop(data, i + 1, pos, neg)

extract_features_else(data) ==
    LET collected == extract_loop_else(data, 1, {}, {})
        common_words == collected.positive_words \cap collected.negative_words
    IN  [positive_words |-> collected.positive_words \ common_words,
         negative_words |-> collected.negative_words \ common_words,
         common_words |-> common_words]

extract_features(data) ==
    LET collected == extract_loop(data, 1, {}, {})
        common_words == collected.positive_words \cap collected.negative_words
    IN  [positive_words |-> collected.positive_words \ common_words,
         negative_words |-> collected.negative_words \ common_words,
         common_words |-> common_words]

(***************************************************************************)
(* SimpleModelTrainer: training                                            *)
(*                                                                         *)
(* datetime.now() is the reading of a clock, the variable now.             *)
(***************************************************************************)
generate_sample_data ==
    << \* "I love this product!"
       <<<<"I"," ","l","o","v","e"," ","t","h","i","s"," ","p","r","o","d",
         "u","c","t","!">>,
         "positive">>,
       \* "This is amazing work"
       <<<<"T","h","i","s"," ","i","s"," ","a","m","a","z","i","n","g"," ",
         "w","o","r","k">>,
         "positive">>,
       \* "Great job on the project"
       <<<<"G","r","e","a","t"," ","j","o","b"," ","o","n"," ","t","h","e",
         " ","p","r","o","j","e","c","t">>,
         "positive">>,
       \* "Excellent quality and service"
       <<<<"E","x","c","e","l","l","e","n","t"," ","q","u","a","l","i","t",
         "y"," ","a","n","d"," ","s","e","r","v","i","c","e">>,
         "positive">>,
       \* "I'm very happy with this"
       <<<<"I","'","m"," ","v","e","r","y"," ","h","a","p","p","y"," ","w",
         "i","t","h"," ","t","h","i","s">>,
         "positive">>,
       \* "Wonderful experience overall"
       <<<<"W","o","n","d","e","r","f","u","l"," ","e","x","p","e","r","i",
         "e","n","c","e"," ","o","v","e","r","a","l","l">>,
         "positive">>,
       \* "This is terrible"
       <<<<"T","h","i","s"," ","i","s"," ","t","e","r","r","i","b","l","e">>,
         "negative">>,
       \* "I hate this so much"
       <<<<"I"," ","h","a","t","e"," ","t","h","i","s"," ","s","o"," ","m",
         "u","c","h">>,
         "negative">>,
       \* "Worst experience ever"
       <<<<"W","o","r","s","t"," ","e","x","p","e","r","i","e","n","c","e",
         " ","e","v","e","r">>,
         "negative">>,
       \* "Very disappointed with quality"
       <<<<"V","e","r","y"," ","d","i","s","a","p","p","o","i","n","t","e",
         "d"," ","w","i","t","h"," ","q","u","a","l","i","t","y">>,
         "negative">>,
       \* "This is awful and bad"
       <<<<"T","h","i","s"," ","i","s"," ","a","w","f","u","l"," ","a","n",
         "d"," ","b","a","d">>,
         "negative">>,
       \* "I don't like this at all"
       <<<<"I"," ","d","o","n","'","t"," ","l","i","k","e"," ","t","h","i",
         "s"," ","a","t"," ","a","l","l">>,
         "negative">>,
       \* "It's okay I guess"
       <<<<"I","t","'","s"," ","o","k","a","y"," ","I"," ","g","u","e","s",
         "s">>,
         "neutral">>,
       \* "This is average"
       <<<<"T","h","i","s"," ","i","s"," ","a","v","e","r","a","g","e">>,
         "neutral">>,
       \* "Nothing special about it"
       <<<<"N","o","t","h","i","n","g"," ","s","p","e","c","i","a","l"," ",
         "a","b","o","u","t"," ","i","t">>,
         "neutral">>,
       \* "Could be better or worse"
       <<<<"C","o","u","l","d"," ","b","e"," ","b","e","t","t","e","r"," ",
         "o","r"," ","w","o","r","s","e">>,
         "neutral">>,
       \* "Fantastic results!"
       <<<<"F","a","n","t","a","s","t","i","c"," ","r","e","s","u","l","t",
         "s","!">>,
         "positive">>,
       \* "Outstanding performance"
       <<<<"O","u","t","s","t","a","n","d","i","n","g"," ","p","e","r","f",
         "o","r","m","a","n","c","e">>,
         "positive">>,
       \* "Incredible work"
       <<<<"I","n","c","r","e","d","i","b","l","e"," ","w","o","r","k">>,
         "positive">>,
       \* "Absolutely brilliant"
       <<<<"A","b","s","o","l","u","t","e","l","y"," ","b","r","i","l","l",
         "i","a","n","t">>,
         "positive">>,
       \* "Superb quality"
       <<<<"S","u","p","e","r","b"," ","q","u","a","l","i","t","y">>,
         "positive">>,
       \* "Marvelous experience"
       <<<<"M","a","r","v","e","l","o","u","s"," ","e","x","p","e","r","i",
         "e","n","c","e">>,
         "positive">>,
       \* "Complete disaster"
       <<<<"C","o","m","p","l","e","t","e"," ","d","i","s","a","s","t","e",
         "r">>,
         "negative">>,
       \* "Total failure"
       <<<<"T","o","t","a","l"," ","f","a","i","l","u","r","e">>,
         "negative">>,
       \* "Absolutely horrible"
       <<<<"A","b","s","o","l","u","t","e","l","y"," ","h","o","r","r","i",
         "b","l","e">>,
         "negative">>,
       \* "Completely useless"
       <<<<"C","o","m","p","l","e","t","e","l","y"," ","u","s","e","l","e",
         "s","s">>,
         "negative">>,
       \* "Worst possible outcome"
       <<<<"W","o","r","s","t"," ","p","o","s","s","i","b","l","e"," ","o",
         "u","t","c","o","m","e">>,
         "negative">>,
       \* "Extremely poor"
       <<<<"E","x","t","r","e","m","e","l","y"," ","p","o","o","r">>,
         "negative">> >>

\* len([x for x in training_data if x[1] == label])
count_label(data, label) ==
    Cardinality({i \in 1..Len(data) : data[i][2] = label})

\* train_model from "Extract features" on, for the training data `data`:
\* the two attributes it assigns.  trained_at and training_time are the
\* two clock readings.
train_on(data, trained_at, training_time) ==
    LET extracted == extract_features(data)
    IN  [model_data |->
            [positive_words |-> extracted.positive_words,
             negative_words |-> extracted.negative_words,
             training_size |-> Len(data),
             trained_at |-> trained_at,
             version |-> "1.0.0"],
         training_stats |->
            [total_samples |-> Len(data),
             positive_samples |-> count_label(data, "positive"),
             negative_samples |-> count_label(data, "negative"),
             neutral_samples |-> count_label(data, "neutral"),
             feature_count |-> Cardinality(extracted.positive_words)
                                 + Cardinality(extracted.negative_words),
             training_time |-> training_time]]

\* Longest corpus, in examples.
MaxCorpus == 3

ILoveThis == <<"I"," ","l","o","v","e"," ","t","h","i","s">>
IHateThis == <<"I"," ","h","a","t","e"," ","t","h","i","s">>

ExampleTexts ==
    { ILoveThis,
      IHateThis,
      <<"T","h","i","s"," "," ","i","s","\t","G","R","E","A","T","\n">>,
      <<"i","t"," ","i","s"," ","o","k">> }

Labels == {"positive", "negative", "neutral"}

RECURSIVE CorporaOf(_)
CorporaOf(k) ==
    IF k = 0 THEN {<<>>}
    ELSE LET shorter == CorporaOf(k - 1)
         IN  shorter \cup {Append(c, <<t, l>>) :
                              c \in shorter, t \in ExampleTexts, l \in Labels}

Corpora == CorporaOf(MaxCorpus)

InitFeatures ==
    /\ positive_words = DefaultPositiveWords
    /\ negative_words = DefaultNegativeWords
    /\ ready = FALSE
    /\ model_data = None
    /\ training_stats = <<>>
    /\ text = <<>>
    /\ api_result = None
    /\ kserve_result = None
    /\ trainer_result = NotCalled
    /\ swapped_result = None
    /\ trainer_swapped = NotCalled
    /\ kserve_request = [instances |-> <<>>]
    /\ last = [op |-> "none"]
    /\ first = [site |-> "none"]
    /\ corpus \in Corpora
    /\ features = None
    /\ now = 0
    /\ files = NoFiles
    /\ trained = FALSE

\* trainer.extract_features(corpus)
ExtractFeatures ==
    /\ features' = extract_features(corpus)
    /\ UNCHANGED <<now, files, trained,
                   positive_words, negative_words, ready, model_data,
                   training_stats, text, api_result, kserve_result,
                   trainer_result, swapped_result, trainer_swapped,
                   kserve_request, last, first, corpus>>

\* Texts scored with a derived lexicon.
ScoreTexts == { <<"L","o","v","e">>, IHateThis }

\* The steps of train_model after generate_sample_data, with the corpus as
\* training data.
TrainOnCorpus ==
    \E out \in {train_on(corpus, now, now)} :
        /\ model_data' = out.model_data
        /\ training_stats' = out.training_stats
        /\ trained' = TRUE
        /\ UNCHANGED <<now, files, positive_words, negative_words, ready,
                       text, api_result, kserve_result, trainer_result,
                       swapped_result, trainer_swapped, kserve_request,
                       last, first, corpus, features>>

\* trainer._predict_single(t)
PredictSingle(t) ==
    /\ trainer_result' = predict_single(model_data, t)
    /\ text' = t
    /\ UNCHANGED <<now, files, trained, positive_words, negative_words,
                   ready, model_data, training_stats, api_result,
                   kserve_result, swapped_result, trainer_swapped,
                   kserve_request, last, first, corpus, features>>

NextFeatures ==
    \/ ExtractFeatures
    \/ TrainOnCorpus
    \/ \E t \in ScoreTexts : PredictSingle(t)

SpecFeatures == InitFeatures /\ [][NextFeatures]_vars

\* The lowercased whitespace-separated words of the examples of one label.
WordsLabeled(label) ==
    UNION {Range(split(lower(corpus[i][1]))) :
              i \in {j \in 1..Len(corpus) : corpus[j][2] = label}}

\* C8: with P and N the lowercased whitespace-separated words of the
\* positive-labeled and of the negative-labeled examples, extract_features
\* returns P minus N, N minus P and P intersect N: three pairwise disjoint
\* sets to which an example with another label adds nothing; for
\* ("I love this", positive), ("I hate this", negative) they are {love},
\* {hate} and {i, this}.
C8_ExtractFeatures ==
    features # None =>
        LET P == WordsLabeled("positive")
            N == WordsLabeled("negative")
        IN  /\ features.positive_words = P \ N
            /\ features.negative_words = N \ P
            /\ features.common_words = P \cap N
            /\ features.positive_words \cap features.negative_words = {}
            /\ features.positive_words \cap features.common_words = {}
            /\ features.negative_words \cap features.common_words = {}
            /\ corpus = << <<ILoveThis, "positive">>,
                           <<IHateThis, "negative">> >> =>
                  /\ features.positive_words = {<<"l","o","v","e">>}
                  /\ features.negative_words = {<<"h","a","t","e">>}
                  /\ features.common_words = {<<"i">>, <<"t","h","i","s">>}
            /\ (\A i \in 1..Len(corpus) : corpus[i][2] = "neutral") =>
                  /\ features.positive_words = {}
                  /\ features.negative_words = {}
                  /\ features.common_words = {}

C8_Witness ==
    /\ features # None
    /\ Len(corpus) = 3
    /\ \E i, j, k \in 1..3 :
          /\ corpus[i][2] = "positive"
          /\ corpus[j][2] = "negative"
          /\ corpus[k] = <<<<"i","t"," ","i","s"," ","o","k">>, "neutral">>
    /\ features.common_words # {}
    /\ <<"g","r","e","a","t">> \in features.positive_words
    /\ <<"o","k">> \notin features.positive_words \cup features.negative_words
                              \cup features.common_words

\* C11: deriving a lexicon from a corpus without examples succeeds with an
\* empty positive and an empty negative word set, and with that lexicon
\* every text is scored "neutral".
C11_EmptyCorpus ==
    corpus = <<>> =>
        /\ features # None =>
              /\ features.positive_words = {}
              /\ features.negative_words = {}
        /\ model_data # None =>
              /\ model_data.positive_words = {}
              /\ model_data.negative_words = {}
        /\ trainer_result # NotCalled => trainer_result = "neutral"

C11_Witness ==
    /\ corpus = <<>>
    /\ features # None
    /\ model_data # None
    /\ model_data.training_size = 0
    /\ text = <<"L","o","v","e">>
    /\ trainer_result = "neutral"

(***************************************************************************)
(* How the hits are counted (SpecScore)                                    *)
(***************************************************************************)
Capitals == Range(UpperChars)

\* Character c of a text matches character wc of a lexicon entry when c is
\* wc or the capital of wc.
MatchesChar(c, wc) ==
    IF c \in Capitals
    THEN \E k \in 1..Len(LowerChars) : LowerChars[k] = wc /\ UpperChars[k] = c
    ELSE c = wc

\* The entry occurs somewhere in the text as a run of consecutive
\* characters, the case of the text ignored.
OccursIn(entry, t) ==
    \E start \in 1..(Len(t) - Len(entry) + 1) :
        \A j \in 1..Len(entry) : MatchesChar(t[start + j - 1], entry[j])

\* The number of entries of a list that occur in the text.
EntriesOccurring(words, t) ==
    Cardinality({k \in 1..Len(words) : OccursIn(words[k], t)})

\* C12: each count is the number of lexicon entries that occur in the text
\* as a contiguous substring, the case of the text ignored: an entry counts
\* once however often it occurs, and counts when it lies inside a longer
\* word; with the literal lists the counts are at most 11 and 10.
C12_SubstringCounts ==
    \E p \in {EntriesOccurring(DefaultPositiveWords, text)},
       n \in {EntriesOccurring(DefaultNegativeWords, text)} :
        /\ DefaultP = p
        /\ DefaultN = n
        /\ p <= 11
        /\ n <= 10
        /\ (~Blank(text) /\ api_result # None) =>
              FollowsRule(api_result, p, n)
        /\ (~Blank(text) /\ kserve_result # None) =>
              \E ownp \in {EntriesOccurring(positive_words, text)},
                 ownn \in {EntriesOccurring(negative_words, text)} :
                  FollowsRule(kserve_result, ownp, ownn)

\* "sadly awful" twice: "sad" (inside "sadly") and "awful" occur twice each
\* and count once each, two negative hits against none.
C12_Witness ==
    /\ DefaultLexicon
    /\ text = <<"s","a","d","l","y"," ","a","w","f","u","l",
                "s","a","d","l","y"," ","a","w","f","u","l">>
    /\ api_result # None
    /\ kserve_result # None
    /\ api_result.sentiment = "negative"
    /\ api_result.confidence = 800
    /\ kserve_result.confidence = 800

(***************************************************************************)
(* SimpleModelTrainer: validate_model and save_model                       *)
(***************************************************************************)
ThisIsGreat == <<"T","h","i","s"," ","i","s"," ","g","r","e","a","t","!">>
ILoveIt == <<"I"," ","l","o","v","e"," ","i","t">>
ThisIsTerrible ==
    <<"T","h","i","s"," ","i","s"," ","t","e","r","r","i","b","l","e">>

\* test_cases of validate_model
test_cases ==
    << <<ThisIsGreat, "positive">>,
       <<ILoveIt, "positive">>,
       <<ThisIsTerrible, "negative">>,
       <<IHateThis, "negative">> >>

\* validate_model without the test of self.model_data at its head.
validate_model_unguarded(md, validation_time) ==
    LET correct ==
            Cardinality({i \in 1..Len(test_cases) :
                predict_single(md, test_cases[i][1]) = test_cases[i][2]})
    IN  [returned |->
            [accuracy |-> (correct * 1000) \div Len(test_cases),
             correct_predictions |-> correct,
             total_test_cases |-> Len(test_cases),
             validation_time |-> validation_time]]

\* validate_model: what it raises or returns; accuracy in thousandths.
validate_model(md, validation_time) ==
    IF md = None
    THEN [raised |-> [type |-> "ValueError",
                      message |-> "Model not trained yet!"]]
    ELSE
    LET correct ==
            Cardinality({i \in 1..Len(test_cases) :
                predict_single(md, test_cases[i][1]) = test_cases[i][2]})
    IN  [returned |->
            [accuracy |-> (correct * 1000) \div Len(test_cases),
             correct_predictions |-> correct,
             total_test_cases |-> Len(test_cases),
             validation_time |-> validation_time]]

\* save_model: the two files of model_dir after the two dumps.
save_model(md, stats, model_dir) ==
    [files EXCEPT ![model_dir] = [sentiment_model |-> md,
                                  training_stats |-> stats]]

\* Last reading of the clock.
MaxClock == 2

\* A SimpleModelTrainer after construction.
InitTrainer ==
    /\ positive_words = DefaultPositiveWords
    /\ negative_words = DefaultNegativeWords
    /\ ready = FALSE
    /\ model_data = None
    /\ training_stats = <<>>
    /\ text = <<>>
    /\ api_result = None
    /\ kserve_result = None
    /\ trainer_result = NotCalled
    /\ swapped_result = None
    /\ trainer_swapped = NotCalled
    /\ kserve_request = [instances |-> <<>>]
    /\ last = [op |-> "none"]
    /\ first = [site |-> "none"]
    /\ corpus = <<>>
    /\ features = None
    /\ now = 0
    /\ files = NoFiles
    /\ trained = FALSE

\* Time passes.
Tick ==
    /\ now < MaxClock
    /\ now' = now + 1
    /\ UNCHANGED <<files, trained, positive_words, negative_words, ready,
                   model_data, training_stats, text, api_result,
                   kserve_result, trainer_result, swapped_result,
                   trainer_swapped, kserve_request, last, first, corpus,
                   features>>

\* trainer.train_model(); the clock may advance between its two readings.
TrainModel ==
    \E d \in {0, 1} :
        /\ now + d <= MaxClock
        /\ \E out \in {train_on(generate_sample_data, now, now + d)} :
              /\ model_data' = out.model_data
              /\ training_stats' = out.training_stats
              /\ last' = [op |-> "train_model",
                          output |-> [returned |-> out.model_data]]
        /\ now' = now + d
        /\ trained' = TRUE
        /\ UNCHANGED <<files, positive_words, negative_words, ready, text,
                       api_result, kserve_result, trainer_result,
                       swapped_result, trainer_swapped, kserve_request,
                       first, corpus, features>>

\* trainer.validate_model()
ValidateModel ==
    /\ last' = [op |-> "validate_model",
                output |-> validate_model(model_data, now)]
    /\ UNCHANGED <<now, files, trained, positive_words, negative_words,
                   ready, model_data, training_stats, text, api_result,
                   kserve_result, trainer_result, swapped_result,
                   trainer_swapped, kserve_request, first, corpus,
                   features>>

\* trainer.save_model(model_dir)
SaveModel(model_dir) ==
    /\ files' = save_model(model_data, training_stats, model_dir)
    /\ last' = [op |-> "save_model",
                output |-> [returned |-> <<model_dir, model_dir>>]]
    /\ UNCHANGED <<now, trained, positive_words, negative_words, ready,
                   model_data, training_stats, text, api_result,
                   kserve_result, trainer_result, swapped_result,
                   trainer_swapped, kserve_request, first, corpus,
                   features>>

NextTrainer ==
    \/ Tick
    \/ TrainModel
    \/ ValidateModel
    \/ \E model_dir \in ModelDirs : SaveModel(model_dir)

SpecTrainer == InitTrainer /\ [][NextTrainer]_vars

\* What one step of the trainer may do, by the call that was made (a call
\* that changes nothing at all, last included, is a stuttering step).
C13_Step ==
    /\ (last' # last /\ last'.op = "validate_model") =>
          /\ model_data' = model_data
          /\ training_stats' = training_stats
          /\ ~trained =>
                /\ "raised" \in DOMAIN last'.output
                /\ last'.output.raised.type = "ValueError"
          /\ trained => "raised" \notin DOMAIN last'.output
    /\ (last' # last /\ last'.op = "save_model") =>
          /\ model_data' = model_data
          /\ training_stats' = training_stats
    /\ trained' => model_data' # None
    /\ ~trained' => model_data' = None /\ training_stats' = <<>>

\* C13: a new trainer has model_data None and empty training_stats; before
\* any train_model, validate_model raises ValueError and changes neither;
\* after a train_model, model_data is set, validate_model never raises, and
\* neither validate_model nor save_model changes model_data or
\* training_stats.
C13_Lifecycle ==
    /\ model_data = None
    /\ training_stats = <<>>
    /\ [][C13_Step]_vars

C13_Witness ==
    /\ trained
    /\ last.op = "validate_model"
    /\ "returned" \in DOMAIN last.output
    /\ files["../models"] # None
    /\ files["../models"].sentiment_model = model_data
    /\ files["tmp_path"] # None
    /\ files["tmp_path"].sentiment_model = None

\* The entries of a word set that occur in the lowercased text.
HitsOf(words, t) == {w \in words : contains(lower(t), w)}

\* C14: validate_model on the model trained from the built-in sample corpus
\* reports 4 test cases and 3 correct predictions (accuracy 0.75): "I love
\* it", "This is terrible" and "I hate this" are classified as expected,
\* "This is great!" is "neutral" because the negative word "at" lies inside
\* "great" and ties the one positive hit "great".
C14_SampleValidation ==
    (last.op = "validate_model" /\ "returned" \in DOMAIN last.output) =>
        /\ last.output.returned.total_test_cases = 4
        /\ last.output.returned.correct_predictions = 3
        /\ last.output.returned.accuracy = 750
        /\ predict_single(model_data, ILoveIt) = "positive"
        /\ predict_single(model_data, ThisIsTerrible) = "negative"
        /\ predict_single(model_data, IHateThis) = "negative"
        /\ predict_single(model_data, ThisIsGreat) = "neutral"
        /\ <<"a","t">> \in model_data.negative_words
        /\ <<"a","t">> \notin model_data.positive_words
        /\ HitsOf(model_data.positive_words, ThisIsGreat)
              = {<<"g","r","e","a","t">>}
        /\ HitsOf(model_data.negative_words, ThisIsGreat) = {<<"a","t">>}

C14_Witness ==
    /\ last.op = "validate_model"
    /\ "returned" \in DOMAIN last.output
    /\ model_data # None
    /\ model_data.training_size = 28
    /\ last.output.returned.validation_time > model_data.trained_at

====
